---- MODULE Spec2Model ----
(***************************************************************************)
(* llm-rs numeric kernels: the Embedding layer (nn/embedding.rs), causal   *)
(* attention (op/attention.rs) and softmax / cross-entropy (op/loss.rs).   *)
(*                                                                         *)
(* A tensor is a record [dt, shape, strides, data]: a data-type tag, the   *)
(* extents, the byte strides and the flat buffer.  An activation buffer is *)
(* an array of 4-byte words (one word per f32 element, two per f64         *)
(* element), an index buffer an array of 2-byte u16 cells.  f32 values are *)
(* modelled by integers.  Option<T> is a sequence of length 0 or 1.        *)
(***************************************************************************)
EXTENDS Integers, Sequences, FiniteSets, TLC

VARIABLES unit,      \* which component this behaviour exercises
          te, pe,    \* Embedding: the two parameter tables
          teState, peState, \* Embedding: state of the two table handles
          tokens,    \* Embedding: Option of the retained token-index tensor
          dwte, dwpe,\* the gradient accumulators named "wte" and "wpe"
          out,       \* what the last call returned: Option of the output tensor
          last,      \* record of the last call: operation, inputs, outcome, values at entry
          dims,      \* the batch and sequence extents the caller works with
          calls,     \* number of calls made so far
          pending,   \* op kernels: the calls still to be made, each a record of operand tensors
          done       \* op kernels: the calls made, each [args, out, res]

vars == <<unit, te, pe, teState, peState, tokens, dwte, dwpe, out, last, dims, calls, pending, done>>

(* ------------------------------ bounds -------------------------------- *)
MaxBatch == 2
MaxSeq == 2
MaxD == 2
NVoc == 2
MaxCalls == 3
MaxT == 3
MaxHeads == 2
MaxHeadDim == 2
FixOne == 16
MaxVocab == 3

(* ------------------------- tensors and helpers ------------------------ *)
NBytes(dt) == CASE dt = "F32" -> 4 [] dt = "F64" -> 8 [] dt = "U16" -> 2 [] dt = "U32" -> 4

RECURSIVE Prod(_)
Prod(s) == IF s = <<>> THEN 1 ELSE Head(s) * Prod(Tail(s))

RECURSIVE Pow(_, _)
Pow(b, e) == IF e = 0 THEN 1 ELSE b * Pow(b, e - 1)

\* byte strides of a densely packed tensor of this shape and element type
RECURSIVE ContigStrides(_, _)
ContigStrides(shape, nb) ==
    IF shape = <<>> THEN <<>>
    ELSE <<nb * Prod(Tail(shape))>> \o ContigStrides(Tail(shape), nb)

\* ctx.tensor(dt, shape): a fresh densely packed tensor
CtxTensor(dt, shape) ==
    [dt |-> dt, shape |-> shape, strides |-> ContigStrides(shape, NBytes(dt)),
     data |-> [w \in 0 .. (Prod(shape) * (IF dt = "F64" THEN 2 ELSE 1)) - 1 |-> 0]]

IsContiguous(t) == t.strides = ContigStrides(t.shape, NBytes(t.dt))

\* Tensor::merge(0, 2): collapses the two leading axes; Option, None when the strides do not allow it
Merge02(t) ==
    IF t.strides[1] = t.shape[2] * t.strides[2]
    THEN <<[t EXCEPT !.shape = <<t.shape[1] * t.shape[2]>> \o SubSeq(t.shape, 3, Len(t.shape)),
                     !.strides = SubSeq(t.strides, 2, Len(t.strides))]>>
    ELSE <<>>

\* unique(&[..]): Some(v) when all the extents are the same value v, else None
Unique(s) == IF \A i \in DOMAIN s : s[i] = s[1] THEN <<s[1]>> ELSE <<>>

(* ------------------------- BatchIter / build_pos ---------------------- *)
\* BatchIter::next with the two extents confused: the position is taken modulo the batch size
BatchIterNextByBatch(it) ==
    IF it.index \div it.seq_len < it.batch_size
    THEN [item |-> <<it.index % it.batch_size>>, it |-> [it EXCEPT !.index = it.index + 1]]
    ELSE [item |-> <<>>, it |-> it]

\* Iterator::next for BatchIter: Option of the item, and the iterator after the call
BatchIterNext(it) ==
    IF it.index \div it.seq_len < it.batch_size
    THEN [item |-> <<it.index % it.seq_len>>, it |-> [it EXCEPT !.index = it.index + 1]]
    ELSE [item |-> <<>>, it |-> it]

BatchIterNew(batch_size, seq_len) == [batch_size |-> batch_size, seq_len |-> seq_len, index |-> 0]

\* the u16 cell build_pos stores for an item (`i as _`)
PosCell(i) == i % 65536

\* build_pos: writes the items the iterator yields into consecutive u16 cells.
\* Result: [ok, buf]; ok is FALSE when an item arrives with no cell left (slice[0] panics).
RECURSIVE BuildPos(_, _, _)
BuildPos(buf, k, it) ==
    LET nx == BatchIterNext(it) IN
    IF nx.item = <<>> THEN [ok |-> TRUE, buf |-> buf, n |-> k]
    ELSE IF k \notin DOMAIN buf THEN [ok |-> FALSE, buf |-> buf, n |-> k]
    ELSE BuildPos([buf EXCEPT ![k] = PosCell(nx.item[1])], k + 1, nx.it)

(* ----------------------- forward::embedding --------------------------- *)
\* the two table rows an output row adds (line 227)
FwdCell(x1, x2) == x1 + x2

\* Scheme::compute of mod forward: for each i < n, y row i = table1 row i1[i] + table2 row i2[i]
RECURSIVE FwdCompute(_, _, _)
FwdCompute(s, i, ybuf) ==
    IF i = s.n THEN ybuf
    ELSE LET yo == (s.nsy * i) \div 4
             x1 == s.i1[i] * s.d
             x2 == s.i2[i] * s.d
         IN FwdCompute(s, i + 1,
                [w \in DOMAIN ybuf |->
                    IF w >= yo /\ w < yo + s.d
                    THEN FwdCell(s.table1[x1 + (w - yo)], s.table2[x2 + (w - yo)])
                    ELSE ybuf[w]])

\* the dispatch of forward::embedding and backward::embedding (lines 191-194, 280-283)
Dispatch(ydt, i1dt, i2dt) == ydt = "F32" /\ i1dt = "U16" /\ i2dt = "U16"

\* forward::embedding: [res, y]; res is "ok", or the panic that ended the call
FwdEmbedding(y, i1, i2, table1, table2) ==
    LET n == Unique(<<y.shape[1], i1.shape[1], i2.shape[1]>>)
        d == Unique(<<y.shape[2], table1.shape[2], table2.shape[2]>>)
    IN  IF n = <<>> \/ d = <<>> THEN [res |-> "shape", y |-> y.data]
        ELSE IF \/ y.strides[2] # NBytes(y.dt)
                \/ i1.strides[1] # NBytes(i1.dt)
                \/ i2.strides[1] # NBytes(i2.dt)
                \/ ~IsContiguous(table1)
                \/ ~IsContiguous(table2) THEN [res |-> "stride", y |-> y.data]
        ELSE IF ~Dispatch(y.dt, i1.dt, i2.dt) THEN [res |-> "todo", y |-> y.data]
        ELSE [res |-> "ok",
              y |-> FwdCompute([n |-> n[1], d |-> d[1], nsy |-> y.strides[1],
                                i1 |-> i1.data, i2 |-> i2.data,
                                table1 |-> table1.data, table2 |-> table2.data], 0, y.data)]

(* ----------------------- backward::embedding -------------------------- *)
\* the accumulator cell overwritten by the upstream cell instead of added to
BwdCellOverwrite(x, dy) == dy

\* `+=` of lines 318-319: the accumulator cell after the upstream cell is added
BwdCell(x, dy) == x + dy

\* Scheme::compute of mod backward: for each i < n, the dy row i is added into
\* dtable1 row i1[i] and into dtable2 row i2[i]
RECURSIVE BwdCompute(_, _, _, _)
BwdCompute(s, i, t1, t2) ==
    IF i = s.n THEN <<t1, t2>>
    ELSE LET yo == (s.nsy * i) \div 4
             x1 == s.i1[i] * s.d
             x2 == s.i2[i] * s.d
         IN BwdCompute(s, i + 1,
                [w \in DOMAIN t1 |->
                    IF w >= x1 /\ w < x1 + s.d THEN BwdCell(t1[w], s.dy[yo + (w - x1)]) ELSE t1[w]],
                [w \in DOMAIN t2 |->
                    IF w >= x2 /\ w < x2 + s.d THEN BwdCell(t2[w], s.dy[yo + (w - x2)]) ELSE t2[w]])

\* backward::embedding: [res, t1, t2]
BwdEmbedding(dtable1, dtable2, dy, i1, i2) ==
    LET n == Unique(<<dy.shape[1], i1.shape[1], i2.shape[1]>>)
        d == Unique(<<dy.shape[2], dtable1.shape[2], dtable2.shape[2]>>)
        same(r) == [res |-> r, t1 |-> dtable1.data, t2 |-> dtable2.data]
    IN  IF n = <<>> \/ d = <<>> THEN same("shape")
        ELSE IF \/ ~IsContiguous(dtable1)
                \/ ~IsContiguous(dtable2)
                \/ dy.strides[2] # NBytes(dy.dt)
                \/ i1.strides[1] # NBytes(i1.dt)
                \/ i2.strides[1] # NBytes(i2.dt) THEN same("stride")
        ELSE IF ~Dispatch(dy.dt, i1.dt, i2.dt) THEN same("todo")
        ELSE LET r == BwdCompute([n |-> n[1], d |-> d[1], nsy |-> dy.strides[1],
                                  dy |-> dy.data, i1 |-> i1.data, i2 |-> i2.data],
                                 0, dtable1.data, dtable2.data)
             IN [res |-> "ok", t1 |-> r[1], t2 |-> r[2]]

(* --------------------------- shared handles --------------------------- *)
\* RwRc::read: the handle is held for reading afterwards
HandleRead(st) == "read"
\* RwRc::release: the tensor goes to its named gradient owner and the slot is cleared
HandleRelease(st) == "released"

(* ------------------------------ inputs -------------------------------- *)
Batches == 1 .. MaxBatch
Seqs == 1 .. MaxSeq
Widths == 1 .. MaxD
\* the tables the layer is built on: both f32 of one width, or one of them f64, or widths that differ
ParamKinds == {"ok", "te_f64", "pe_f64", "pe_d"}
TokKinds == {"ok", "u32", "wide"}
DyKinds == {"ok", "f64", "wide", "n", "d"}
Seeds == 0 .. 1
TokSeeds == 0 .. 2

WordsOf(dt, shape) == Prod(shape) * (IF dt = "F64" THEN 2 ELSE 1)

\* a parameter table: rows x d, densely packed, every word a different value
Table(dt, rows, d, base) ==
    [dt |-> dt, shape |-> <<rows, d>>, strides |-> ContigStrides(<<rows, d>>, NBytes(dt)),
     data |-> [w \in 0 .. WordsOf(dt, <<rows, d>>) - 1 |-> base * (w + 1)]]

\* a gradient accumulator of a parameter: same type and shape, zero or already holding gradient
Accumulator(param, seed) ==
    [param EXCEPT !.data = [w \in DOMAIN param.data |-> seed * (3 * w + 2)]]

\* a token-index tensor (batch x sequence) whose cells are the digits of seed in base NVoc
TokInput(B, T, kind, seed) ==
    LET dt == IF kind = "u32" THEN "U32" ELSE "U16"
        es == IF kind = "wide" THEN 2 * NBytes(dt) ELSE NBytes(dt)
        cells == B * T * (IF kind = "wide" THEN 2 ELSE 1)
    IN [dt |-> dt, shape |-> <<B, T>>, strides |-> <<T * es, es>>,
        data |-> [i \in 0 .. cells - 1 |-> (seed \div Pow(NVoc, i % 2)) % NVoc]]

\* an upstream gradient (batch x sequence x d), every word a different value
DyInput(B, T, d, kind) ==
    LET dt == IF kind = "f64" THEN "F64" ELSE "F32"
        es == IF kind = "wide" THEN 2 * NBytes(dt) ELSE NBytes(dt)
        BB == IF kind = "n" THEN B + 1 ELSE B
        dd == IF kind = "d" THEN d + 1 ELSE d
        words == BB * T * dd * (IF kind \in {"f64", "wide"} THEN 2 ELSE 1)
    IN [dt |-> dt, shape |-> <<BB, T, dd>>, strides |-> <<T * dd * es, dd * es, es>>,
        data |-> [w \in 0 .. words - 1 |-> 7 * (w + 1)]]

NoCall == [op |-> "init", res |-> "ok", input |-> <<>>, fwdBefore |-> FALSE, fwdSince |-> FALSE,
           tokEntry |-> <<>>, dwteEntry |-> <<>>, dwpeEntry |-> <<>>,
           teEntry |-> "hold", peEntry |-> "hold"]

(* --------------------------- Embedding layer -------------------------- *)
\* Embedding::init
InitEmb ==
    /\ unit = "embedding"
    /\ \E d \in Widths, kind \in ParamKinds, g \in Seeds :
          /\ te = Table(IF kind = "te_f64" THEN "F64" ELSE "F32", NVoc, d, 10)
          /\ pe = Table(IF kind = "pe_f64" THEN "F64" ELSE "F32", MaxSeq,
                        IF kind = "pe_d" THEN d + 1 ELSE d, 100)
          /\ dwte = Accumulator(te, g)
          /\ dwpe = Accumulator(pe, g)
    /\ dims \in [B : Batches, T : Seqs]
    /\ teState = "hold"
    /\ peState = "hold"
    /\ tokens = <<>>
    /\ out = <<>>
    /\ last = NoCall
    /\ calls = 0
    /\ pending = <<>>
    /\ done = <<>>

\* self.tokens.replace(tokens) (line 30)
ReplaceTokens(old, new) == <<new>>

\* the retained tensor borrowed (as_ref) instead of taken
KeepTokens(old) == old

\* tokens.take() (line 69): what the layer retains after it
TakeTokens(old) == <<>>

\* the kernel call of Embedding::forward with its operands (lines 36-53): [res, y]
ForwardKernel(tok, tab1, tab2) ==
    LET B == tok.shape[1]
        T == tok.shape[2]
        y == CtxTensor(tab1.dt, <<B, T, tab1.shape[2]>>)
        i1 == Merge02(tok)
        i2 == CtxTensor("U16", <<B * T>>)
        pos == BuildPos(i2.data, 0, BatchIterNew(B, T))
    IN  IF i1 = <<>> \/ ~pos.ok THEN [res |-> "index", y |-> y]
        ELSE LET k == FwdEmbedding(Merge02(y)[1], i1[1], [i2 EXCEPT !.data = pos.buf], tab1, tab2)
             IN [res |-> k.res, y |-> [y EXCEPT !.data = k.y]]

\* Embedding::forward, the whole call
Forward(tok) ==
    /\ unit = "embedding"
    /\ calls < MaxCalls
    /\ calls' = calls + 1
    /\ tokens' = ReplaceTokens(tokens, tok)
    /\ teState' = HandleRead(teState)
    /\ peState' = HandleRead(peState)
    /\ \E k \in {ForwardKernel(tok, te, pe)} :
          /\ out' = IF k.res = "ok" THEN <<k.y>> ELSE <<>>
          /\ last' = [op |-> "forward", res |-> k.res, input |-> <<tok>>,
                      fwdBefore |-> last.fwdSince, fwdSince |-> TRUE,
                      tokEntry |-> tokens, dwteEntry |-> <<dwte>>, dwpeEntry |-> <<dwpe>>,
                      teEntry |-> teState, peEntry |-> peState]
    /\ UNCHANGED <<unit, te, pe, dwte, dwpe, dims, pending, done>>

\* the kernel call of Embedding::backward with its operands (lines 70-82): [res, t1, t2]
BackwardKernel(tok, dy, dtable1, dtable2) ==
    LET B == tok.shape[1]
        T == tok.shape[2]
        i1 == Merge02(tok)
        dym == Merge02(dy)
        i2 == CtxTensor("U16", <<B * T>>)
        pos == BuildPos(i2.data, 0, BatchIterNew(B, T))
    IN  IF i1 = <<>> \/ dym = <<>> \/ ~pos.ok
        THEN [res |-> "index", t1 |-> dtable1.data, t2 |-> dtable2.data]
        ELSE BwdEmbedding(dtable1, dtable2, dym[1], i1[1], [i2 EXCEPT !.data = pos.buf])

\* Embedding::backward, the whole call
Backward(dy) ==
    LET entry == [op |-> "backward", res |-> "ok", input |-> <<dy>>,
                  fwdBefore |-> last.fwdSince, fwdSince |-> FALSE,
                  tokEntry |-> tokens, dwteEntry |-> <<dwte>>, dwpeEntry |-> <<dwpe>>,
                  teEntry |-> teState, peEntry |-> peState]
    IN  /\ unit = "embedding"
        /\ calls < MaxCalls
        /\ calls' = calls + 1
        /\ out' = <<>>
        /\ IF tokens = <<>>
           THEN /\ last' = [entry EXCEPT !.res = "unwrap_none"]
                /\ UNCHANGED <<tokens, teState, peState, dwte, dwpe>>
           ELSE \E k \in {BackwardKernel(tokens[1], dy, dwte, dwpe)} :
                    /\ tokens' = TakeTokens(tokens)
                    /\ dwte' = [dwte EXCEPT !.data = k.t1]
                    /\ dwpe' = [dwpe EXCEPT !.data = k.t2]
                    /\ teState' = IF k.res = "ok" THEN HandleRelease(teState) ELSE teState
                    /\ peState' = IF k.res = "ok" THEN HandleRelease(peState) ELSE peState
                    /\ last' = [entry EXCEPT !.res = k.res]
        /\ UNCHANGED <<unit, te, pe, dims, pending, done>>

CallForward == \E kind \in TokKinds, seed \in TokSeeds :
                  /\ kind # "ok" => seed = 1
                  /\ Forward(TokInput(dims.B, dims.T, kind, seed))

CallBackward == \E kind \in DyKinds : Backward(DyInput(dims.B, dims.T, te.shape[2], kind))

NextEmb == CallForward \/ CallBackward

SpecEmb == InitEmb /\ [][NextEmb]_vars

(* ------------------------- f32 arithmetic ----------------------------- *)
\* f32 values of the op kernels are fixed-point integers with FixOne standing for 1.0
FMul(a, b) == (a * b) \div FixOne
\* f32 division; -1 stands for the non-finite result of dividing by 0.0
FDiv(a, b) == IF b = 0 THEN -1 ELSE (a * FixOne) \div b
\* f32::exp, as a monotone fixed-point stand-in: 1.0 at 0, halving with every quarter unit
\* below it (down to 0), doubling with every quarter unit above
FExp(z) == IF z >= 0 THEN FixOne * Pow(2, z \div (FixOne \div 4))
           ELSE FixOne \div Pow(2, ((-z) + (FixOne \div 4) - 1) \div (FixOne \div 4))
\* (dh as f32).powf(-0.5)
Scale(dh) == CHOOSE v \in 0 .. FixOne : v * v * dh <= FixOne * FixOne /\ (v + 1) * (v + 1) * dh > FixOne * FixOne

\* a densely packed tensor holding the given words
Dense(dt, shape, data) ==
    [dt |-> dt, shape |-> shape, strides |-> ContigStrides(shape, NBytes(dt)), data |-> data]

RECURSIVE SumTo(_, _)
\* f[0] + ... + f[n-1], added in index order
SumTo(f, n) == IF n = 0 THEN 0 ELSE SumTo(f, n - 1) + f[n - 1]

RECURSIVE MaxTo(_, _, _)
\* the running maximum of f[0 .. n-1] started from m (`if *val > max { max = *val }`)
MaxTo(f, n, m) == IF n = 0 THEN m ELSE LET p == MaxTo(f, n - 1, m) IN IF f[n - 1] > p THEN f[n - 1] ELSE p

(* -------------------------- attention::forward ------------------------ *)
\* the prefix of row t that the passes work on: split_at_mut(t + 1) (lines 53-54)
AttPrefix(t) == t + 1

\* the weights beyond the prefix left as they were
AttTailKeep(old) == old

\* tail.fill(0.) (line 82): what a weight beyond the prefix holds afterwards
AttTailFill(old) == 0

\* the scores beyond the prefix zero-filled like the weights
PreattTailZero(old) == 0

\* what a score beyond the prefix holds afterwards: that half of the split is dropped (line 53)
PreattTail(old) == old

\* the dimensions attention::forward resolves (lines 10-22): Option of [B, T, nh, d, dh]
AttForwardDims(a) ==
    LET dt == Unique(<<a.y.dt, a.preatt.dt, a.att.dt, a.x.dt>>)
        B == Unique(<<a.y.shape[1], a.x.shape[1], a.preatt.shape[1], a.att.shape[1]>>)
        T == Unique(<<a.y.shape[2], a.x.shape[2], a.preatt.shape[3], a.preatt.shape[4],
                      a.att.shape[3], a.att.shape[4]>>)
        nh == Unique(<<a.preatt.shape[2], a.att.shape[2]>>)
        d == Unique(<<a.y.shape[3], a.x.shape[3] \div 3>>)
    IN  IF dt = <<>> \/ dt # <<"F32">> THEN [res |-> "dtype"]
        ELSE IF B = <<>> \/ T = <<>> \/ nh = <<>> \/ d = <<>> THEN [res |-> "shape"]
        ELSE [res |-> "ok", B |-> B[1], T |-> T[1], nh |-> nh[1], d |-> d[1], dh |-> d[1] \div nh[1]]

\* the four passes of attention::forward for one (b, t, h) (lines 56-95): the row of
\* scores, the row of weights and the head's slice of the output row
AttRow(x, D, b, t, h, preattOld, attOld) ==
    LET d3 == x.shape[3]
        q == [i \in 0 .. D.dh - 1 |-> x.data[(b * D.T + t) * d3 + h * D.dh + i]]
        k == [t_ \in 0 .. D.T - 1 |-> [i \in 0 .. D.dh - 1 |-> x.data[(b * D.T + t_) * d3 + D.d + h * D.dh + i]]]
        v == [t_ \in 0 .. D.T - 1 |-> [i \in 0 .. D.dh - 1 |-> x.data[(b * D.T + t_) * d3 + 2 * D.d + h * D.dh + i]]]
        n == AttPrefix(t)
        scale == Scale(D.dh)
        \* pass 1
        score == [t_ \in 0 .. n - 1 |->
                     FMul(SumTo([i \in 0 .. D.dh - 1 |-> FMul(q[i], k[t_][i])], D.dh), scale)]
        max == MaxTo(score, n, -1000000)
        \* pass 2
        e == [t_ \in 0 .. n - 1 |-> FExp(score[t_] - max)]
        expsum == SumTo(e, n)
        expsum_inv == FDiv(FixOne, expsum)
        \* pass 3
        w == [t_ \in 0 .. n - 1 |-> FMul(e[t_], expsum_inv)]
    IN  [preatt |-> [t_ \in 0 .. D.T - 1 |-> IF t_ < n THEN score[t_] ELSE PreattTail(preattOld[t_])],
         att |-> [t_ \in 0 .. D.T - 1 |-> IF t_ < n THEN w[t_] ELSE AttTailFill(attOld[t_])],
         \* pass 4
         y |-> [i \in 0 .. D.dh - 1 |-> SumTo([t_ \in 0 .. n - 1 |-> FMul(w[t_], v[t_][i])], n)]]

\* attention::forward: [res, y, preatt, att]
AttForward(a) ==
    LET D == AttForwardDims(a)
        same(r) == [res |-> r, y |-> a.y, preatt |-> a.preatt, att |-> a.att]
    IN  IF D.res # "ok" THEN same(D.res)
        ELSE LET at(b, h, t) == ((b * D.nh + h) * D.T + t) * D.T
                 row == [b \in 0 .. D.B - 1, t \in 0 .. D.T - 1, h \in 0 .. D.nh - 1 |->
                            AttRow(a.x, D, b, t, h,
                                   [t_ \in 0 .. D.T - 1 |-> a.preatt.data[at(b, h, t) + t_]],
                                   [t_ \in 0 .. D.T - 1 |-> a.att.data[at(b, h, t) + t_]])]
                 bOf(w) == w \div (D.nh * D.T * D.T)
                 hOf(w) == (w \div (D.T * D.T)) % D.nh
                 tOf(w) == (w \div D.T) % D.T
             IN [res |-> "ok",
                 preatt |-> [a.preatt EXCEPT !.data =
                                [w \in DOMAIN a.preatt.data |-> row[bOf(w), tOf(w), hOf(w)].preatt[w % D.T]]],
                 att |-> [a.att EXCEPT !.data =
                                [w \in DOMAIN a.att.data |-> row[bOf(w), tOf(w), hOf(w)].att[w % D.T]]],
                 y |-> [a.y EXCEPT !.data =
                                [w \in DOMAIN a.y.data |->
                                    IF (w % D.d) \div D.dh < D.nh
                                    THEN row[w \div (D.T * D.d), (w \div D.d) % D.T, (w % D.d) \div D.dh].y[(w % D.d) % D.dh]
                                    ELSE a.y.data[w]]]]

\* operands of one attention::forward call
AttKinds == {"ok", "slack", "dtype", "batch", "seq", "heads", "width"}
XSeeds == 0 .. 26

\* words of the packed query/key/value tensor: the base-3 digits of seed, as halves of 1.0
XData(n, seed) == [w \in 0 .. n - 1 |-> (((seed \div Pow(3, w % 3)) % 3) + ((w \div 3) % 2)) * (FixOne \div 2)]

AttArgs(B, T, nh, dh, kind, seed, g) ==
    LET d == nh * dh
        d3 == IF kind = "slack" THEN 3 * d + 1 ELSE IF kind = "width" THEN 3 * d + 3 ELSE 3 * d
        sa == <<IF kind = "batch" THEN B + 1 ELSE B, IF kind = "heads" THEN nh + 1 ELSE nh,
                T, IF kind = "seq" THEN T + 1 ELSE T>>
    IN [y |-> Dense("F32", <<B, T, d>>, [w \in 0 .. B * T * d - 1 |-> g]),
        preatt |-> Dense(IF kind = "dtype" THEN "F64" ELSE "F32", <<B, nh, T, T>>,
                         [w \in 0 .. B * nh * T * T * (IF kind = "dtype" THEN 2 ELSE 1) - 1 |-> g * (w + 1)]),
        att |-> Dense("F32", sa, [w \in 0 .. Prod(sa) - 1 |-> g * (w + 2)]),
        x |-> Dense("F32", <<B, T, d3>>, XData(B * T * d3, seed))]

IdleEmbedding ==
    /\ te = <<>> /\ pe = <<>> /\ dwte = <<>> /\ dwpe = <<>> /\ tokens = <<>> /\ out = <<>>
    /\ teState = "hold" /\ peState = "hold" /\ last = NoCall /\ calls = 0
    /\ dims = [B |-> 0, T |-> 0]

InitAtt ==
    /\ unit = "attention"
    /\ IdleEmbedding
    /\ done = <<>>
    /\ \E B \in Batches, T \in 1 .. MaxT, nh \in 1 .. MaxHeads, dh \in 1 .. MaxHeadDim,
          kind \in AttKinds, seed \in XSeeds, g \in Seeds :
          /\ kind # "ok" => (seed = 5 /\ g = 1)
          /\ pending = <<AttArgs(B, T, nh, dh, kind, seed, g)>>

\* one call of attention::forward
AttentionForward ==
    /\ unit = "attention"
    /\ pending # <<>>
    /\ \E r \in {AttForward(Head(pending))} :
          done' = Append(done, [args |-> Head(pending), res |-> r.res,
                                out |-> [y |-> r.y, preatt |-> r.preatt, att |-> r.att]])
    /\ pending' = Tail(pending)
    /\ UNCHANGED <<unit, te, pe, teState, peState, tokens, dwte, dwpe, out, last, dims, calls>>

SpecAtt == InitAtt /\ [][AttentionForward]_vars

(* -------------------------- attention::backward ----------------------- *)
\* the dimensions attention::backward resolves (lines 111-137)
AttBackwardDims(a) ==
    LET dt == Unique(<<a.dx.dt, a.dpreatt.dt, a.datt.dt, a.dy.dt, a.x.dt, a.att.dt>>)
        B == Unique(<<a.dx.shape[1], a.dpreatt.shape[1], a.datt.shape[1], a.dy.shape[1],
                      a.x.shape[1], a.att.shape[1]>>)
        T == Unique(<<a.dx.shape[2], a.dpreatt.shape[3], a.dpreatt.shape[4], a.datt.shape[3],
                      a.datt.shape[4], a.dy.shape[2], a.x.shape[2], a.att.shape[3], a.att.shape[4]>>)
        nh == Unique(<<a.dpreatt.shape[2], a.datt.shape[2], a.att.shape[2]>>)
        d == Unique(<<a.dx.shape[3] \div 3, a.x.shape[3] \div 3, a.dy.shape[3]>>)
    IN  IF dt = <<>> \/ dt # <<"F32">> THEN [res |-> "dtype"]
        ELSE IF B = <<>> \/ T = <<>> \/ nh = <<>> \/ d = <<>> THEN [res |-> "shape"]
        ELSE [res |-> "ok", B |-> B[1], T |-> T[1], nh |-> nh[1], d |-> d[1], dh |-> d[1] \div nh[1]]

\* word of dx the value gradient of position t_ is added to (lines 168-175): row t_ of batch b,
\* taken through index(&[t_]), so at the row's own width wd
DvAddr(D, wd, b, t_, h, i) == (b * D.T + t_) * wd + 2 * D.d + h * D.dh + i

\* word of dx the query gradient of position t is added to (lines 192-200): offset t * 3 * d
\* of the merged (sequence * width) view of batch b
DqAddr(D, wd, b, t, h, i) == b * D.T * wd + t * 3 * D.d + h * D.dh + i

\* word of dx the key gradient of position t_ is added to (line 203): offset (t_ * 3 + 1) * d
\* of the merged view of batch b
DkAddr(D, wd, b, t_, h, i) == b * D.T * wd + (t_ * 3 + 1) * D.d + h * D.dh + i

\* the body of the loops of attention::backward for one (b, t, h) (lines 143-211), on the
\* buffers S = [dx, dpreatt, datt]
AttBackwardStep(S, a, D, b, t, h) ==
    LET wx == a.x.shape[3]
        wd == a.dx.shape[3]
        row == ((b * D.nh + h) * D.T + t) * D.T
        lo == h * D.dh
        scale == Scale(D.dh)
        dy == [i \in 0 .. D.dh - 1 |-> a.dy.data[(b * D.T + t) * D.d + lo + i]]
        att == [t_ \in 0 .. D.T - 1 |-> a.att.data[row + t_]]
        v == [t_ \in 0 .. t |-> [i \in 0 .. D.dh - 1 |-> a.x.data[DvAddr(D, wx, b, t_, h, i)]]]
        \* lines 167-184: through the rows of dx and x
        datt1 == [w \in DOMAIN S.datt |->
                     IF w >= row /\ w <= row + t
                     THEN S.datt[w] + SumTo([i \in 0 .. D.dh - 1 |-> FMul(v[w - row][i], dy[i])], D.dh)
                     ELSE S.datt[w]]
        dx1 == [w \in DOMAIN S.dx |->
                   IF \E t_ \in 0 .. t, i \in 0 .. D.dh - 1 : w = DvAddr(D, wd, b, t_, h, i)
                   THEN LET c == CHOOSE c \in (0 .. t) \X (0 .. D.dh - 1) : w = DvAddr(D, wd, b, c[1], h, c[2])
                        IN S.dx[w] + FMul(att[c[1]], dy[c[2]])
                   ELSE S.dx[w]]
        \* lines 185-190
        dpreatt1 == [w \in DOMAIN S.dpreatt |->
                        IF w >= row /\ w <= row + t
                        THEN S.dpreatt[w]
                             + SumTo([t_ \in 0 .. t |->
                                         FMul(FMul(att[t_], (IF t_ = w - row THEN FixOne ELSE 0) - att[w - row]),
                                              datt1[row + t_])], t + 1)
                        ELSE S.dpreatt[w]]
        \* lines 192-211: through the merged (sequence * width) views, rows taken as 3 * d wide
        q == [i \in 0 .. D.dh - 1 |-> a.x.data[DqAddr(D, wx, b, t, h, i)]]
        k == [t_ \in 0 .. t |-> [i \in 0 .. D.dh - 1 |-> a.x.data[DkAddr(D, wx, b, t_, h, i)]]]
        dx2 == [w \in DOMAIN dx1 |->
                   IF \E i \in 0 .. D.dh - 1 : w = DqAddr(D, wd, b, t, h, i)
                   THEN LET i == CHOOSE i \in 0 .. D.dh - 1 : w = DqAddr(D, wd, b, t, h, i)
                        IN dx1[w] + SumTo([t_ \in 0 .. t |->
                                              FMul(FMul(k[t_][i], dpreatt1[row + t_]), scale)], t + 1)
                   ELSE IF \E t_ \in 0 .. t, i \in 0 .. D.dh - 1 : w = DkAddr(D, wd, b, t_, h, i)
                   THEN LET c == CHOOSE c \in (0 .. t) \X (0 .. D.dh - 1) : w = DkAddr(D, wd, b, c[1], h, c[2])
                        IN dx1[w] + FMul(FMul(q[c[2]], dpreatt1[row + c[1]]), scale)
                   ELSE dx1[w]]
    IN [dx |-> dx2, dpreatt |-> dpreatt1, datt |-> datt1]

\* the loops over b, t, h of attention::backward (lines 140-142), from iteration n on
RECURSIVE AttBackwardLoop(_, _, _, _)
AttBackwardLoop(n, S, a, D) ==
    IF n = D.B * D.T * D.nh THEN S
    ELSE AttBackwardLoop(n + 1,
                         AttBackwardStep(S, a, D, n \div (D.T * D.nh), (n \div D.nh) % D.T, n % D.nh),
                         a, D)

\* attention::backward: [res, dx, dpreatt, datt]
AttBackward(a) ==
    LET D == AttBackwardDims(a)
    IN  IF D.res # "ok" THEN [res |-> D.res, dx |-> a.dx, dpreatt |-> a.dpreatt, datt |-> a.datt]
        ELSE LET S == AttBackwardLoop(0, [dx |-> a.dx.data, dpreatt |-> a.dpreatt.data,
                                          datt |-> a.datt.data], a, D)
             IN [res |-> "ok", dx |-> [a.dx EXCEPT !.data = S.dx],
                 dpreatt |-> [a.dpreatt EXCEPT !.data = S.dpreatt],
                 datt |-> [a.datt EXCEPT !.data = S.datt]]

\* operands of one attention::backward call
AttBackwardArgs(B, T, nh, dh, kind, seed, g) ==
    LET d == nh * dh
        d3 == IF kind \in {"slack", "slack_dx"} THEN 3 * d + 1 ELSE IF kind = "width" THEN 3 * d + 3 ELSE 3 * d
        wd == IF kind = "slack_dx" THEN 3 * d + 1 ELSE 3 * d
        sa == <<IF kind = "batch" THEN B + 1 ELSE B, IF kind = "heads" THEN nh + 1 ELSE nh,
                T, IF kind = "seq" THEN T + 1 ELSE T>>
    IN [dx |-> Dense("F32", <<B, T, wd>>, [w \in 0 .. B * T * wd - 1 |-> g * (w + 1)]),
        dpreatt |-> Dense(IF kind = "dtype" THEN "F64" ELSE "F32", <<B, nh, T, T>>,
                          [w \in 0 .. B * nh * T * T * (IF kind = "dtype" THEN 2 ELSE 1) - 1 |-> g * (w + 2)]),
        datt |-> Dense("F32", sa, [w \in 0 .. Prod(sa) - 1 |-> g * (w + 3)]),
        dy |-> Dense("F32", <<B, T, d>>, [w \in 0 .. B * T * d - 1 |-> (1 + (w % 2)) * FixOne]),
        x |-> Dense("F32", <<B, T, d3>>, XData(B * T * d3, seed)),
        att |-> Dense("F32", <<B, nh, T, T>>,
                      [w \in 0 .. B * nh * T * T - 1 |-> IF (w % T) <= ((w \div T) % T) THEN FixOne \div (1 + ((w \div T) % T)) ELSE 0])]

\* operand sets of attention::backward: those of forward, and a gradient dx as wide as a
\* packed input of width 3 * d + 1
AttBackwardKinds == AttKinds \cup {"slack_dx"}
\* the operand sets that pass the checks of lines 111-135
AcceptedKinds == {"ok", "slack", "slack_dx"}

InitAttBackward ==
    /\ unit = "attention_backward"
    /\ IdleEmbedding
    /\ done = <<>>
    /\ \E B \in Batches, T \in 1 .. MaxT, nh \in 1 .. MaxHeads, dh \in 1 .. MaxHeadDim,
          kind \in AttBackwardKinds, seed \in XSeeds, g \in Seeds :
          /\ kind \notin AcceptedKinds => (seed = 5 /\ g = 1)
          /\ pending = <<AttBackwardArgs(B, T, nh, dh, kind, seed, g)>>

\* one call of attention::backward
AttentionBackward ==
    /\ unit = "attention_backward"
    /\ pending # <<>>
    /\ \E r \in {AttBackward(Head(pending))} :
          done' = Append(done, [args |-> Head(pending), res |-> r.res,
                                out |-> [dx |-> r.dx, dpreatt |-> r.dpreatt, datt |-> r.datt]])
    /\ pending' = Tail(pending)
    /\ UNCHANGED <<unit, te, pe, teState, peState, tokens, dwte, dwpe, out, last, dims, calls>>

SpecAttBackward == InitAttBackward /\ [][AttentionBackward]_vars

(* ------------------------------ loss::softmax ------------------------- *)
\* the slice of the input row the maximum and the exponentials are taken over: &x[..mask] leaves it all
SoftmaxInputWhole(mask, n_voc) == n_voc

\* the slice of the input row the maximum and the exponentials are taken over: &x[..mask] (line 32)
SoftmaxInputLen(mask, n_voc) == mask

\* one row of softmax (lines 31-44): the output row
SoftmaxRow(xrow, yrow, mask, n_voc) ==
    LET n == SoftmaxInputLen(mask, n_voc)
        max == MaxTo(xrow, n, xrow[0])
        e == [i \in 0 .. mask - 1 |-> FExp(xrow[i] - max)]
        expsum == SumTo(e, mask)
    IN [i \in 0 .. n_voc - 1 |-> IF i < mask THEN FDiv(e[i], expsum) ELSE 0]

\* softmax: [res, y]
Softmax(a) ==
    LET dt == Unique(<<a.y.dt, a.x.dt>>)
        V == a.y.shape[3]
    IN  IF dt = <<>> \/ dt # <<"F32">> THEN [res |-> "dtype", y |-> a.y]
        ELSE IF a.y.shape # a.x.shape THEN [res |-> "shape", y |-> a.y]
        \* split_at_mut(mask) and &x[..mask] panic on the first row when mask is beyond the row
        ELSE IF a.mask > V THEN [res |-> "index", y |-> a.y]
        \* max_by(..).unwrap() panics on the first row when the slice is empty
        ELSE IF a.mask = 0 THEN [res |-> "unwrap_none", y |-> a.y]
        ELSE LET row == [r \in 0 .. a.y.shape[1] * a.y.shape[2] - 1 |->
                            SoftmaxRow([i \in 0 .. V - 1 |-> a.x.data[r * V + i]],
                                       [i \in 0 .. V - 1 |-> a.y.data[r * V + i]], a.mask, V)]
             IN [res |-> "ok", y |-> [a.y EXCEPT !.data = [w \in DOMAIN a.y.data |-> row[w \div V][w % V]]]]

(* --------------------------- loss::crossentropy ----------------------- *)
\* -ln(p) in fixed point: one unit for every halving below 1.0; -1 stands for a non-finite result
RECURSIVE NegLn(_)
NegLn(p) == IF p <= 0 THEN -1 ELSE IF p >= FixOne THEN 0 ELSE
            LET r == NegLn(2 * p) IN IF r < 0 THEN r ELSE r + FixOne

\* the row loop of crossentropy (lines 65-84) from row r on: [res, losses]
RECURSIVE CrossRows(_, _, _, _, _)
CrossRows(r, n, losses, probs, targets) ==
    IF r = n THEN [res |-> "ok", losses |-> losses]
    ELSE LET V == probs.shape[3]
             target == targets.data[r]
         IN  IF target >= V THEN [res |-> "index", losses |-> losses]
             ELSE CrossRows(r + 1, n, [losses EXCEPT ![r] = NegLn(probs.data[r * V + target])],
                            probs, targets)

\* crossentropy: [res, losses]
Crossentropy(a) ==
    LET dt == Unique(<<a.losses.dt, a.probs.dt>>)
        B == Unique(<<a.losses.shape[1], a.probs.shape[1], a.targets.shape[1]>>)
        T == Unique(<<a.losses.shape[2], a.probs.shape[2], a.targets.shape[2]>>)
    IN  IF dt = <<>> \/ dt # <<"F32">> \/ a.targets.dt # "U16" THEN [res |-> "dtype", losses |-> a.losses]
        ELSE IF B = <<>> \/ T = <<>> THEN [res |-> "shape", losses |-> a.losses]
        ELSE LET k == CrossRows(0, B[1] * T[1], a.losses.data, a.probs, a.targets)
             IN [res |-> k.res, losses |-> [a.losses EXCEPT !.data = k.losses]]

(* ------------------------------ loss::backward ------------------------ *)
\* the logit gradient overwritten instead of added to
LossCellOverwrite(dlogit, prob, indicator, dloss) == FMul(prob - indicator, dloss)

\* `*dlogit += (prob - indicator) * dloss` (line 132)
LossCell(dlogit, prob, indicator, dloss) == dlogit + FMul(prob - indicator, dloss)

\* `if i == ix { 1. } else { 0. }` (line 131)
Indicator(i, ix) == IF i = ix THEN FixOne ELSE 0

\* loss::backward: [res, dlogits]
LossBackward(a) ==
    LET dt == Unique(<<a.dlogits.dt, a.dlosses.dt, a.probs.dt>>)
        B == Unique(<<a.dlogits.shape[1], a.dlosses.shape[1], a.probs.shape[1], a.targets.shape[1]>>)
        T == Unique(<<a.dlogits.shape[2], a.dlosses.shape[2], a.probs.shape[2], a.targets.shape[2]>>)
        V == Unique(<<a.dlogits.shape[3], a.probs.shape[3]>>)
    IN  IF dt = <<>> \/ dt # <<"F32">> \/ a.targets.dt # "U16" THEN [res |-> "dtype", dlogits |-> a.dlogits]
        ELSE IF B = <<>> \/ T = <<>> \/ V = <<>> THEN [res |-> "shape", dlogits |-> a.dlogits]
        ELSE [res |-> "ok",
              dlogits |-> [a.dlogits EXCEPT !.data =
                  [w \in DOMAIN a.dlogits.data |->
                      LossCell(a.dlogits.data[w], a.probs.data[w],
                               Indicator(w % V[1], a.targets.data[w \div V[1]]),
                               a.dlosses.data[w \div V[1]])]]]

(* ------------------------- loss kernels: calls ------------------------ *)
LossKinds == {"ok", "dtype", "batch", "seq", "voc"}

\* logits / probabilities: the base-3 digits of seed, as halves of 1.0
Logits(B, T, V, seed) ==
    Dense("F32", <<B, T, V>>, [w \in 0 .. B * T * V - 1 |-> ((seed \div Pow(3, w % 3)) % 3) * (FixOne \div 2)])

\* the same logits with every element at vocabulary index >= mask changed
LogitsOtherTail(x, mask) ==
    [x EXCEPT !.data = [w \in DOMAIN x.data |->
                           IF w % x.shape[3] >= mask THEN x.data[w] + 3 * FixOne ELSE x.data[w]]]

\* target indices: row r gets (seed + r) mod (V + 1), so one past the vocabulary occurs
Targets(B, T, V, seed, dt) ==
    Dense(dt, <<B, T>>, [r \in 0 .. B * T - 1 |-> (seed + r) % (V + 1)])

SoftmaxArgs(B, T, V, mask, kind, seed, g) ==
    LET sy == <<IF kind = "batch" THEN B + 1 ELSE B, IF kind = "seq" THEN T + 1 ELSE T,
                IF kind = "voc" THEN V + 1 ELSE V>>
        y == Dense(IF kind = "dtype" THEN "F64" ELSE "F32", sy,
                   [w \in 0 .. Prod(sy) * (IF kind = "dtype" THEN 2 ELSE 1) - 1 |-> g * (w + 1)])
        x == Logits(B, T, V, seed)
    IN <<[y |-> y, x |-> x, mask |-> mask], [y |-> y, x |-> LogitsOtherTail(x, mask), mask |-> mask]>>

InitSoftmax ==
    /\ unit = "softmax"
    /\ IdleEmbedding
    /\ done = <<>>
    /\ \E B \in Batches, T \in Seqs, V \in 1 .. MaxVocab, kind \in LossKinds, seed \in XSeeds, g \in Seeds :
          \E mask \in 0 .. V + 1 :
              /\ kind # "ok" => (seed = 5 /\ g = 1 /\ mask = 1)
              /\ pending = SoftmaxArgs(B, T, V, mask, kind, seed, g)

\* one call of softmax
SoftmaxCall ==
    /\ unit = "softmax"
    /\ pending # <<>>
    /\ \E r \in {Softmax(Head(pending))} :
          done' = Append(done, [args |-> Head(pending), res |-> r.res, out |-> [y |-> r.y]])
    /\ pending' = Tail(pending)
    /\ UNCHANGED <<unit, te, pe, teState, peState, tokens, dwte, dwpe, out, last, dims, calls>>

CrossArgs(B, T, V, kind, seed, ts, g) ==
    LET sl == <<IF kind = "batch" THEN B + 1 ELSE B, IF kind = "seq" THEN T + 1 ELSE T>>
    IN [losses |-> Dense("F32", sl, [w \in 0 .. Prod(sl) - 1 |-> g * (w + 1)]),
        probs |-> Logits(B, T, IF kind = "voc" THEN V + 1 ELSE V, seed),
        targets |-> Targets(B, T, V, ts, IF kind = "dtype" THEN "U32" ELSE "U16")]

InitCrossentropy ==
    /\ unit = "crossentropy"
    /\ IdleEmbedding
    /\ done = <<>>
    /\ \E B \in Batches, T \in Seqs, V \in 1 .. MaxVocab, kind \in LossKinds, seed \in XSeeds, g \in Seeds :
          \E ts \in 0 .. V :
              /\ kind # "ok" => (seed = 5 /\ g = 1 /\ ts = 0)
              /\ pending = <<CrossArgs(B, T, V, kind, seed, ts, g)>>

\* one call of crossentropy
CrossentropyCall ==
    /\ unit = "crossentropy"
    /\ pending # <<>>
    /\ \E r \in {Crossentropy(Head(pending))} :
          done' = Append(done, [args |-> Head(pending), res |-> r.res, out |-> [losses |-> r.losses]])
    /\ pending' = Tail(pending)
    /\ UNCHANGED <<unit, te, pe, teState, peState, tokens, dwte, dwpe, out, last, dims, calls>>

LossBackwardArgs(B, T, V, kind, seed, ts, g) ==
    LET sd == <<IF kind = "batch" THEN B + 1 ELSE B, T, IF kind = "voc" THEN V + 1 ELSE V>>
        sl == <<B, IF kind = "seq" THEN T + 1 ELSE T>>
    IN [dlogits |-> Dense("F32", sd, [w \in 0 .. Prod(sd) - 1 |-> g * (w + 1)]),
        dlosses |-> Dense("F32", sl, [w \in 0 .. Prod(sl) - 1 |-> (w + 1) * (FixOne \div 2)]),
        probs |-> Logits(B, T, V, seed),
        targets |-> Targets(B, T, V, ts, IF kind = "dtype" THEN "U32" ELSE "U16")]

InitLossBackward ==
    /\ unit = "loss_backward"
    /\ IdleEmbedding
    /\ done = <<>>
    /\ \E B \in Batches, T \in Seqs, V \in 1 .. MaxVocab, kind \in LossKinds, seed \in XSeeds, g \in Seeds :
          \E ts \in 0 .. V :
              /\ kind # "ok" => (seed = 5 /\ g = 1 /\ ts = 0)
              /\ pending = <<LossBackwardArgs(B, T, V, kind, seed, ts, g)>>

\* one call of loss::backward
LossBackwardCall ==
    /\ unit = "loss_backward"
    /\ pending # <<>>
    /\ \E r \in {LossBackward(Head(pending))} :
          done' = Append(done, [args |-> Head(pending), res |-> r.res, out |-> [dlogits |-> r.dlogits]])
    /\ pending' = Tail(pending)
    /\ UNCHANGED <<unit, te, pe, teState, peState, tokens, dwte, dwpe, out, last, dims, calls>>

InitLoss == InitSoftmax \/ InitCrossentropy \/ InitLossBackward
NextLoss == SoftmaxCall \/ CrossentropyCall \/ LossBackwardCall
SpecLoss == InitLoss /\ [][NextLoss]_vars

(* --------------------------- all the kernels -------------------------- *)
Init == InitEmb \/ InitAtt \/ InitAttBackward \/ InitLoss
Next == NextEmb \/ AttentionForward \/ AttentionBackward \/ NextLoss
Spec == Init /\ [][Next]_vars

(* ======================= Embedding: properties ======================== *)
RECURSIVE SumOver(_, _)
\* the sum of f[x] over the finite set S
SumOver(S, f) == IF S = {} THEN 0 ELSE LET x == CHOOSE x \in S : TRUE IN f[x] + SumOver(S \ {x}, f)

AllF32 == te.dt = "F32" /\ pe.dt = "F32"
ForwardOk == unit = "embedding" /\ last.op = "forward" /\ last.res = "ok"
BackwardOk == unit = "embedding" /\ last.op = "backward" /\ last.res = "ok"

\* C1: after a successful forward on f32 tables, y[b][s][j] = te[tokens[b][s]][j] + pe[s][j]
\* for every b < batch_size, s < n_seq, j < d, and the position ids the layer builds
\* are exactly batch_size * n_seq ids, 0 .. n_seq-1 once per batch element.
C1_ForwardIsTokenPlusPosition ==
    (ForwardOk /\ AllF32) =>
        LET tok == last.input[1]
            B == tok.shape[1]
            T == tok.shape[2]
            d == te.shape[2]
            y == out[1]
            pos == BuildPos([i \in 0 .. B * T - 1 |-> 0], 0, BatchIterNew(B, T))
        IN  /\ y.shape = <<B, T, d>>
            /\ \A b \in 0 .. B - 1, s \in 0 .. T - 1, j \in 0 .. d - 1 :
                  y.data[(b * T + s) * d + j] = te.data[tok.data[b * T + s] * d + j] + pe.data[s * d + j]
            /\ pos.ok /\ pos.n = B * T
            /\ \A b \in 0 .. B - 1, s \in 0 .. T - 1 : pos.buf[b * T + s] = s

\* C1 witness: a forward over two batch elements of two positions holding two different tokens
C1_Witness ==
    /\ ForwardOk /\ AllF32
    /\ last.input[1].shape = <<2, 2>>
    /\ last.input[1].data[0] # last.input[1].data[1]
    /\ te.shape[2] = 2

\* C2: after a successful backward on f32 accumulators, every row r of the token-table
\* gradient is its value at entry plus the sum of the dy rows of the (b, s) with
\* tokens[b][s] = r, and every row p of the position-table gradient is its value at entry
\* plus the sum of dy[b][p] over the batch; a row nothing maps to is unchanged.
C2_BackwardIsScatterAdd ==
    (BackwardOk /\ AllF32) =>
        LET tok == last.tokEntry[1]
            dy == last.input[1]
            B == tok.shape[1]
            T == tok.shape[2]
            d == te.shape[2]
            g1 == last.dwteEntry[1]
            g2 == last.dwpeEntry[1]
        IN  /\ \A r \in 0 .. te.shape[1] - 1, j \in 0 .. d - 1 :
                  dwte.data[r * d + j] = g1.data[r * d + j]
                      + SumOver({i \in 0 .. B * T - 1 : tok.data[i] = r},
                                [i \in 0 .. B * T - 1 |-> dy.data[i * d + j]])
            /\ \A p \in 0 .. pe.shape[1] - 1, j \in 0 .. d - 1 :
                  dwpe.data[p * d + j] = g2.data[p * d + j]
                      + SumOver({b \in 0 .. B - 1 : p < T},
                                [b \in 0 .. B - 1 |-> dy.data[(b * T + p) * d + j]])

\* C2 witness: a backward where one token row is hit twice, another row by nothing,
\* and the accumulators already hold gradient at entry
C2_Witness ==
    /\ BackwardOk /\ AllF32
    /\ last.tokEntry[1].shape[1] * last.tokEntry[1].shape[2] >= 2
    /\ \A i \in DOMAIN last.tokEntry[1].data : last.tokEntry[1].data[i] = 0
    /\ last.dwteEntry[1].data[0] # 0
    /\ dwte.data[te.shape[2]] = last.dwteEntry[1].data[te.shape[2]]

\* C3: a backward call succeeds only if a forward call was made since init and since the
\* previous backward call; otherwise it fails on the missing token tensor and adds no
\* gradient.  After any backward call the layer retains no token tensor.
C3_BackwardNeedsForward ==
    (unit = "embedding" /\ last.op = "backward") =>
        /\ last.res = "ok" => last.fwdBefore
        /\ ~last.fwdBefore => /\ last.res = "unwrap_none"
                              /\ <<dwte>> = last.dwteEntry
                              /\ <<dwpe>> = last.dwpeEntry
        /\ tokens = <<>>

\* C3 witness: a backward that fails right after a backward that succeeded
C3_Witness ==
    /\ unit = "embedding" /\ last.op = "backward" /\ last.res = "unwrap_none"
    /\ last.teEntry = "released"
    /\ ~last.fwdBefore

\* C4 (as claimed): the layer never reads a table handle that is in the released state;
\* a forward call would first have to supply a fresh one.
C4_NoReadOfReleasedHandle ==
    (unit = "embedding" /\ last.op = "forward") =>
        (last.teEntry # "released" /\ last.peEntry # "released")

\* C9 (as claimed): the kernels compute only when every activation operand, the tables and
\* table gradients included, is f32 and both index tensors are u16.
C9_ComputeOnlyOnSupportedTypes ==
    (ForwardOk \/ BackwardOk) =>
        /\ te.dt = "F32" /\ pe.dt = "F32" /\ dwte.dt = "F32" /\ dwpe.dt = "F32"
        /\ last.input[1].dt \in {"F32", "U16"}

(* ======================= attention: properties ======================== *)
AttDone == unit = "attention" /\ done # <<>> /\ done[1].res = "ok"

\* the (b, h, t, t') cell of a batch x heads x sequence x sequence tensor
Cell4(m, b, h, t, u) == m.data[((b * m.shape[2] + h) * m.shape[3] + t) * m.shape[4] + u]

\* scale * (query of position t . key of position u), head h, read from the packed input
RefScore(x, nh, b, h, t, u) ==
    LET T == x.shape[2]
        d3 == x.shape[3]
        d == d3 \div 3
        dh == d \div nh
    IN FMul(SumOver(0 .. dh - 1,
                    [i \in 0 .. dh - 1 |-> FMul(x.data[(b * T + t) * d3 + h * dh + i],
                                                x.data[(b * T + u) * d3 + d + h * dh + i])]),
            Scale(dh))

\* the weight of position u in row t: the exponential of its score less the largest score
\* of 0 .. t, times the inverse of the sum of those exponentials over 0 .. t
RefWeight(x, nh, b, h, t, u) ==
    LET sc == [v \in 0 .. t |-> RefScore(x, nh, b, h, t, v)]
        m == CHOOSE v \in {sc[w] : w \in 0 .. t} : \A w \in 0 .. t : sc[w] <= v
        ex == [v \in 0 .. t |-> FExp(sc[v] - m)]
    IN FMul(ex[u], FDiv(FixOne, SumOver(0 .. t, ex)))

\* C5: after attention::forward, every weight att[b][h][t][t'] with t' > t is 0 whatever
\* the tensor held at entry, and the weights at t' <= t are the normalised exponentials
\* of the scores of positions 0 .. t only.
C5_CausalMask ==
    AttDone =>
        LET a == done[1].args
            att == done[1].out.att
        IN \A b \in 0 .. att.shape[1] - 1, h \in 0 .. att.shape[2] - 1,
              t \in 0 .. att.shape[3] - 1, u \in 0 .. att.shape[3] - 1 :
              Cell4(att, b, h, t, u) = IF u > t THEN 0 ELSE RefWeight(a.x, att.shape[2], b, h, t, u)

\* C5 witness: a call on three positions whose weight tensor held non-zero values at the
\* future positions at entry and whose last row gives unequal weights
C5_Witness ==
    /\ AttDone
    /\ done[1].args.att.shape[3] = 3
    /\ Cell4(done[1].args.att, 0, 0, 0, 2) # 0
    /\ Cell4(done[1].out.att, 0, 0, 2, 0) # Cell4(done[1].out.att, 0, 0, 2, 1)

AgreeOnPrefix(x1, x2, n) ==
    /\ x1.shape = x2.shape
    /\ \A w \in DOMAIN x1.data : w % x1.shape[3] < n => x1.data[w] = x2.data[w]

\* C7: softmax with a vocabulary mask: a call whose operands agree in type and shape is
\* accepted exactly for 1 <= mask <= n_voc; every output element at vocabulary index
\* >= mask is 0 afterwards, and two calls whose inputs agree on the first mask elements
\* of every row give the same output (nothing at index >= mask is read, the row maximum
\* included).
C7_SoftmaxReadsOnlyTheMaskedPrefix ==
    unit = "softmax" =>
        /\ \A k \in DOMAIN done :
              LET a == done[k].args
                  V == a.y.shape[3]
              IN  /\ (a.y.dt = "F32" /\ a.x.dt = "F32" /\ a.y.shape = a.x.shape) =>
                        (done[k].res = "ok" <=> a.mask \in 1 .. V)
                  /\ done[k].res = "ok" =>
                        \A w \in DOMAIN done[k].out.y.data : w % V >= a.mask => done[k].out.y.data[w] = 0
        /\ (/\ Len(done) = 2
            /\ done[1].res = "ok" /\ done[2].res = "ok"
            /\ done[1].args.mask = done[2].args.mask
            /\ AgreeOnPrefix(done[1].args.x, done[2].args.x, done[1].args.mask))
              => done[1].out.y = done[2].out.y

\* C7 witness: two accepted calls on inputs that differ beyond the mask, an output that
\* held non-zero values beyond the mask at entry, and a row of unequal probabilities
C7_Witness ==
    /\ unit = "softmax" /\ Len(done) = 2
    /\ done[1].res = "ok" /\ done[2].res = "ok"
    /\ done[1].args.mask = 2 /\ done[1].args.y.shape[3] = 3
    /\ done[1].args.x # done[2].args.x
    /\ done[1].args.y.data[2] # 0
    /\ done[1].out.y.data[0] # done[1].out.y.data[1]

\* C8: loss::backward adds the closed-form gradient to every logit of the full vocabulary
\* axis: dlogits[b][t][i] = its value at entry + (probs[b][t][i] - [i = targets[b][t]]) *
\* dlosses[b][t]; a row whose target lies in [0, n_voc) has exactly one index with the
\* indicator, a row whose target lies beyond has none.
C8_LossBackwardClosedForm ==
    (unit = "loss_backward" /\ done # <<>> /\ done[1].res = "ok") =>
        LET a == done[1].args
            V == a.dlogits.shape[3]
            o == done[1].out.dlogits.data
        IN \A r \in 0 .. a.dlogits.shape[1] * a.dlogits.shape[2] - 1 :
              /\ \A i \in 0 .. V - 1 :
                    o[r * V + i] = a.dlogits.data[r * V + i]
                        + FMul(IF i = a.targets.data[r] THEN a.probs.data[r * V + i] - FixOne
                                                        ELSE a.probs.data[r * V + i],
                               a.dlosses.data[r])
              /\ Cardinality({i \in 0 .. V - 1 :
                                 o[r * V + i] - a.dlogits.data[r * V + i]
                                     = FMul(a.probs.data[r * V + i], a.dlosses.data[r]) - a.dlosses.data[r]})
                    = IF a.targets.data[r] < V THEN 1 ELSE 0

\* C8 witness: a call on a three-word vocabulary whose gradient was non-zero at entry, with
\* one row whose target is in range and one whose target is not
C8_Witness ==
    /\ unit = "loss_backward" /\ done # <<>> /\ done[1].res = "ok"
    /\ done[1].args.dlogits.shape[3] = 3
    /\ done[1].args.dlogits.data[0] # 0
    /\ \E r1, r2 \in DOMAIN done[1].args.targets.data :
          done[1].args.targets.data[r1] < 3 /\ done[1].args.targets.data[r2] >= 3

(* ------------------------ failed precondition checks ------------------ *)
\* a call that failed one of its extent or stride checks
ShapeFailure(res) == res \in {"shape", "stride"}

\* the tensors a failed kernel call was given are as they were at entry
FailedCallKeepsTensors ==
    /\ \A i \in DOMAIN done :
          ShapeFailure(done[i].res) =>
             \A f \in DOMAIN done[i].out : done[i].out[f] = done[i].args[f]
    /\ (last.op \in {"forward", "backward"} /\ ShapeFailure(last.res)) =>
          /\ <<dwte>> = last.dwteEntry
          /\ <<dwpe>> = last.dwpeEntry
          /\ out = <<>>

\* C10: a kernel call that fails an extent or stride check leaves every output tensor, every
\* gradient tensor and the state the Embedding layer retains (its token indices) as they were
\* before the call
C10_FailedCallChangesNothing ==
    /\ FailedCallKeepsTensors
    /\ (last.op \in {"forward", "backward"} /\ ShapeFailure(last.res)) => tokens = last.tokEntry


(* ------------------------ attention::backward ------------------------- *)
\* element [b][t][c] of a rank-3 tensor
Cell3(m, b, t, c) == m.data[(b * m.shape[2] + t) * m.shape[3] + c]

\* word of the packed row of position t that holds element i of head h of the query (part 0),
\* the key (part 1) or the value (part 2), in a tensor whose rows are w wide
SlotAddr(D, w, b, t, part, h, i) == (b * D.T + t) * w + part * D.d + h * D.dh + i

\* dx, dpreatt and datt are zero at entry
ZeroAtEntry(a) ==
    /\ \A w \in DOMAIN a.dx.data : a.dx.data[w] = 0
    /\ \A w \in DOMAIN a.dpreatt.data : a.dpreatt.data[w] = 0
    /\ \A w \in DOMAIN a.datt.data : a.datt.data[w] = 0

\* scale * sum over u <= t of key[u] * dscore[t][u], added term by term as the kernel does
RefDq(r, D, b, t, h, i) ==
    SumTo([u \in 0 .. t |->
              FMul(FMul(Cell3(r.args.x, b, u, D.d + h * D.dh + i), Cell4(r.out.dpreatt, b, h, t, u)),
                   Scale(D.dh))], t + 1)

\* scale * sum over t >= u of query[t] * dscore[t][u]
RefDk(r, D, b, u, h, i) ==
    SumTo([t \in 0 .. D.T - 1 |->
              IF t < u THEN 0
              ELSE FMul(FMul(Cell3(r.args.x, b, t, h * D.dh + i), Cell4(r.out.dpreatt, b, h, t, u)),
                        Scale(D.dh))], D.T)

\* the dot-product pass of one finished call r
DotProductPass(r) ==
    LET D == AttBackwardDims(r.args)
        wd == r.args.dx.shape[3]
        I == (0 .. D.B - 1) \X (0 .. D.T - 1) \X (0 .. D.nh - 1) \X (0 .. D.dh - 1)
    IN  \* the gradient slots hold the two sums
        /\ \A c \in I :
              /\ Cell3(r.out.dx, c[1], c[2], c[3] * D.dh + c[4]) = RefDq(r, D, c[1], c[2], c[3], c[4])
              /\ Cell3(r.out.dx, c[1], c[2], D.d + c[3] * D.dh + c[4]) = RefDk(r, D, c[1], c[2], c[3], c[4])
        \* the words addressed are the query, key and value slots of the packed rows
        /\ \A c \in I :
              /\ DqAddr(D, wd, c[1], c[2], c[3], c[4]) = SlotAddr(D, wd, c[1], c[2], 0, c[3], c[4])
              /\ DkAddr(D, wd, c[1], c[2], c[3], c[4]) = SlotAddr(D, wd, c[1], c[2], 1, c[3], c[4])
              /\ DvAddr(D, wd, c[1], c[2], c[3], c[4]) = SlotAddr(D, wd, c[1], c[2], 2, c[3], c[4])
        \* and they are pairwise disjoint
        /\ \A c \in I, e \in I :
              /\ DqAddr(D, wd, c[1], c[2], c[3], c[4]) # DkAddr(D, wd, e[1], e[2], e[3], e[4])
              /\ DqAddr(D, wd, c[1], c[2], c[3], c[4]) # DvAddr(D, wd, e[1], e[2], e[3], e[4])
              /\ DkAddr(D, wd, c[1], c[2], c[3], c[4]) # DvAddr(D, wd, e[1], e[2], e[3], e[4])
        \* no word outside the slots is written
        /\ \A w \in DOMAIN r.out.dx.data :
              (\A c \in I, part \in 0 .. 2 : w # SlotAddr(D, wd, c[1], c[2], part, c[3], c[4]))
                 => r.out.dx.data[w] = r.args.dx.data[w]

\* the calls of attention::backward that returned, on gradients zero at entry
AttBackwardDone(i) ==
    /\ unit = "attention_backward"
    /\ i \in DOMAIN done
    /\ done[i].res = "ok"
    /\ ZeroAtEntry(done[i].args)

\* the packed input and its gradient are exactly 3 * d wide
ExactWidth(a) == a.x.shape[3] = 3 * a.dy.shape[3] /\ a.dx.shape[3] = 3 * a.dy.shape[3]

\* the dot-product pass on operands whose packed rows are exactly 3 * d wide
DotProductPassOnExactWidth ==
    \A i \in DOMAIN done : (AttBackwardDone(i) /\ ExactWidth(done[i].args)) => DotProductPass(done[i])

\* C11: after attention::backward on dx, dpreatt and datt zero at entry, the query-gradient slot
\* of position t holds scale * sum over t' <= t of key[t'] * dscore[t][t'], the key-gradient slot
\* of position t' holds scale * sum over t >= t' of query[t] * dscore[t][t'], the query, key and
\* value slots addressed are pairwise disjoint regions of the packed row, and no element of dx
\* outside them is written
C11_DotProductPass ==
    \A i \in DOMAIN done : AttBackwardDone(i) => DotProductPass(done[i])

====
